---- MODULE Spec2Model ----
(***************************************************************************)
(* Model of the Istio beacon charm (src/src/charm.py, src/src/models.py):  *)
(* the sync and remove handlers of one or two beacon applications that     *)
(* share a Juju model (one Kubernetes namespace), the namespace's labels,  *)
(* and the Gateway / AuthorizationPolicy objects of the cluster.           *)
(*                                                                         *)
(* Conventions.                                                            *)
(*  - A Python str is a sequence of one-character strings, so that len(),  *)
(*    slicing and "-".join() are Len, SubSeq and \o.                       *)
(*  - An Optional value is a sequence of length 0 (None) or 1 (the value). *)
(*  - A dict of labels is a function whose DOMAIN is the set of keys that  *)
(*    are present; label keys are fixed literals and stay TLA+ strings.    *)
(***************************************************************************)
EXTENDS Integers, Sequences, FiniteSets, TLC

VARIABLES
    cluster,      \* the Gateway and AuthorizationPolicy objects of the namespace
    nsLabels,     \* metadata.labels of the Namespace object
    run,          \* the handler being dispatched: its unit, its position, what it did
    hist,         \* history: per scope, the last completed reconcile call
    conc,         \* per application: a label operation that is not serialised
    calc,         \* the last call of a function of charm.py made on its own
    other         \* a handler of another unit that is in flight: its position

vars == <<cluster, nsLabels, run, hist, conc, calc, other>>

(***************************************************************************)
(* Bounds of the model.                                                    *)
(***************************************************************************)
MaxIntents == 2          \* longest mesh_info list a sync receives

(***************************************************************************)
(* Strings.                                                                *)
(***************************************************************************)
None == <<>>
Some(v) == <<v>>

Dash == <<"-">>
AppA == <<"a">>
AppB == <<"b">>
Apps == {AppA, AppB}
ModelName == <<"m">>
Foreign == <<"x">>

RECURSIVE Join(_, _)
\* sep.join(parts)
Join(parts, sep) ==
    IF Len(parts) = 0 THEN <<>>
    ELSE IF Len(parts) = 1 THEN parts[1]
    ELSE parts[1] \o sep \o Join(Tail(parts), sep)

\* s[:n]
Prefix(s, n) == SubSeq(s, 1, IF Len(s) < n THEN Len(s) ELSE n)

Digit(d) == <<"0", "1", "2", "3", "4", "5", "6", "7", "8", "9">>[d + 1]

RECURSIVE IntToStr(_)
\* str(p) of a non-negative int
IntToStr(n) == IF n < 10 THEN <<Digit(n)>> ELSE IntToStr(n \div 10) \o <<Digit(n % 10)>>

HexDigit(d) ==
    <<"0", "1", "2", "3", "4", "5", "6", "7", "8", "9", "a", "b", "c", "d", "e", "f">>[d + 1]

\* the w lowest hex digits of n, most significant first (w <= 8)
HexStr(n, w) == [i \in 1..w |-> HexDigit((n \div 16 ^ (w - i)) % 16)]

(***************************************************************************)
(* charm.py:46-61, 76-96: constants and derived names.                     *)
(***************************************************************************)
AUTHORIZATION_POLICY_LABEL ==
    <<"i","s","t","i","o","-","a","u","t","h","o","r","i","z","a","t","i","o","n","-",
      "p","o","l","i","c","y">>
WAYPOINT_LABEL == <<"i","s","t","i","o","-","w","a","y","p","o","i","n","t">>
AUTHORIZATION_POLICY_RESOURCE_TYPES == {"AuthorizationPolicy"}
WAYPOINT_RESOURCE_TYPES == {"Gateway"}

\* self._app_identity = f"{self.app.name}-{self.model.name}"
AppIdentity(app) == app \o Dash \o ModelName

\* self._waypoint_name = f"{self.app.name}-{self.model.name}-waypoint"
WaypointName(app) == app \o Dash \o ModelName \o <<"-","w","a","y","p","o","i","n","t">>

\* self._telemetry_labels.  The key of an object's label is the tuple of the parts of
\* the (f-)string that names it.
TelemetryLabels(app) ==
    {<<<<"charms.canonical.com/", ModelName, ".", app, ".telemetry">>,
       <<"a","g","g","r","e","g","a","t","e","d">>>>}

UseWaypointKey == "istio.io/use-waypoint"
DataplaneModeKey == "istio.io/dataplane-mode"
ManagedByKey == "charms.canonical.com/istio.io.waypoint.managed-by"
ManagedKeys == {UseWaypointKey, DataplaneModeKey, ManagedByKey}
OtherKey == "kubernetes.io/metadata.name"
Ambient == <<"a","m","b","i","e","n","t">>

(***************************************************************************)
(* MeshPolicy values (charms.istio_beacon_k8s.v0.service_mesh.MeshPolicy), *)
(* the inputs of _build_authorization_policies.                            *)
(***************************************************************************)
Endpoint(hosts, ports, methods, paths) ==
    [hosts |-> hosts, ports |-> ports, methods |-> methods, paths |-> paths]

MeshPolicy(src, srcNs, tgt, svc, eps) ==
    [source_app_name |-> src, source_namespace |-> srcNs, target_app_name |-> tgt,
     target_namespace |-> ModelName, target_service |-> svc, endpoints |-> eps]

SrcApp == <<"s","r","c">>
SrcNs == <<"n","s","1">>
TgtApp == <<"t","g","t">>
TgtSvc == <<"s","v","c">>
PathX == <<"/","x">>
Get == <<"G","E","T">>

BasePolicies ==
    << MeshPolicy(SrcApp, SrcNs, TgtApp, None,
                  <<Endpoint(None, Some(<<80>>), None, Some(<<PathX>>))>>),
       MeshPolicy(SrcApp, SrcNs, TgtApp, None,
                  <<Endpoint(Some(<<>>), None, Some(<<Get>>), None),
                    Endpoint(None, Some(<<8080, 443>>), None, None)>>),
       MeshPolicy(TgtApp, SrcNs, SrcApp, Some(TgtSvc), <<>>),
       MeshPolicy(SrcApp, ModelName, TgtApp, Some(TgtSvc),
                  <<Endpoint(None, Some(<<>>), None, None)>>) >>

Host == <<"h",".","i","o">>

\* Endpoint number i of 81: each of hosts, ports, methods and paths is None, an empty
\* list or a list with values.
EndpointNo(i) ==
    LET pick(k, v) == <<None, Some(<<>>), Some(v)>>[((i \div 3 ^ k) % 3) + 1]
    IN  Endpoint(pick(0, <<Host>>), pick(1, <<80, 443>>), pick(2, <<Get>>), pick(3, <<PathX>>))

\* A name of n characters.
LongName(n) == [i \in 1..n |-> Digit(i % 10)]

\* Lengths of source_app_name, source_namespace and target_app_name around the limit
\* of _generate_authorization_policy_name.
LongLengths ==
    <<<<77, 77, 77>>, <<78, 77, 77>>, <<3, 3, 230>>, <<100, 100, 100>>, <<31, 30, 200>>,
      <<63, 63, 63>>>>

\* The policies a relation can carry in the model: two policies between the same
\* source and target that differ in their endpoints only, one with a target_service
\* and no endpoint, one with an empty port list, one for every endpoint, and policies
\* with long names.
AllPolicies ==
    BasePolicies
        \o [i \in 1..81 |->
               MeshPolicy(SrcApp, SrcNs, TgtApp, None, <<EndpointNo(i - 1)>>)]
        \o [i \in 1..Len(LongLengths) |->
               MeshPolicy(LongName(LongLengths[i][1]), LongName(LongLengths[i][2]),
                          LongName(LongLengths[i][3]), Some(TgtSvc),
                          <<EndpointNo(i)>>)]

\* The policies the relations of a sync carry.
PolicyUniverse == {AllPolicies[1], AllPolicies[2]}

\* Every mesh_info list of at most n policies.
RECURSIVE SeqsUpTo(_, _)
SeqsUpTo(S, n) ==
    IF n = 0 THEN {<<>>}
    ELSE LET shorter == SeqsUpTo(S, n - 1)
         IN  shorter \cup {Append(q, e) : q \in {r \in shorter : Len(r) = n - 1}, e \in S}

MeshInfos == SeqsUpTo(PolicyUniverse, MaxIntents)

\* The mesh_info lists of the syncs that run beside the handler of another unit: no
\* policy, or one.
ConcurrentInfos == {<<>>, <<AllPolicies[1]>>}

NameLimit == 253
TruncateTo == 30
HashChars == 8

(***************************************************************************)
(* charm.py:481-516: peer identity and the hash of a MeshPolicy.           *)
(***************************************************************************)
\* f"cluster.local/ns/{namespace}/sa/{service_account}"
GetPeerIdentityForServiceAccount(service_account, namespace) ==
    <<"c","l","u","s","t","e","r",".","l","o","c","a","l","/","n","s","/">>
        \o namespace \o <<"/","s","a","/">> \o service_account

GetPeerIdentityForJujuApplication(app_name, namespace) ==
    GetPeerIdentityForServiceAccount(app_name, namespace)

\* hashlib.sha256(str(model).encode()).hexdigest(): SHA-256 is abstracted as a
\* function of str(model), which prints every field of the MeshPolicy, that is
\* collision-free on the policies of the model: the 64 hex digits of a policy's
\* digest start with its place in AllPolicies.
DigestChars == 64

HashPydanticModel(model) ==
    LET k == CHOOSE j \in 1..Len(AllPolicies) : AllPolicies[j] = model
    IN  HexStr(k * 40503 + 7, HashChars)
            \o [i \in 1..(DigestChars - HashChars) |-> HexDigit((k + i) % 16)]

(***************************************************************************)
(* charm.py:436-473: _generate_authorization_policy_name.                  *)
(***************************************************************************)

\* Variant: the name without its hash suffix.
GenerateNameWithoutHash(app, mesh_policy) ==
    Join(<<app, ModelName, <<"p","o","l","i","c","y">>, mesh_policy.source_app_name,
           mesh_policy.source_namespace, mesh_policy.target_app_name>>, Dash)

\* Variant: source_namespace is not truncated, as in the docstring of the method.
GenerateNameKeepingNamespace(app, mesh_policy) ==
    LET hash == Prefix(HashPydanticModel(mesh_policy), HashChars)
        name == Join(<<app, ModelName, <<"p","o","l","i","c","y">>,
                       mesh_policy.source_app_name, mesh_policy.source_namespace,
                       mesh_policy.target_app_name, hash>>, Dash)
    IN  IF Len(name) > NameLimit
        THEN Join(<<app, ModelName, <<"p","o","l","i","c","y">>,
                    Prefix(mesh_policy.source_app_name, TruncateTo),
                    mesh_policy.source_namespace,
                    Prefix(mesh_policy.target_app_name, TruncateTo), hash>>, Dash)
        ELSE name

GenerateAuthorizationPolicyName(app, mesh_policy) ==
    LET hash == Prefix(HashPydanticModel(mesh_policy), HashChars)
        name == Join(<<app, ModelName, <<"p","o","l","i","c","y">>,
                       mesh_policy.source_app_name, mesh_policy.source_namespace,
                       mesh_policy.target_app_name, hash>>, Dash)
    IN  IF Len(name) > NameLimit
        THEN Join(<<app, ModelName, <<"p","o","l","i","c","y">>,
                    Prefix(mesh_policy.source_app_name, TruncateTo),
                    Prefix(mesh_policy.source_namespace, TruncateTo),
                    Prefix(mesh_policy.target_app_name, TruncateTo), hash>>, Dash)
        ELSE name

(***************************************************************************)
(* charm.py:237-296: _build_authorization_policies.                        *)
(***************************************************************************)
\* Variant: every list that is None is passed on as the empty list, as ports is.
OperationDumpEmptyLists(endpoint) ==
    LET ports == IF endpoint.ports # None /\ endpoint.ports[1] # <<>>
                 THEN [k \in 1..Len(endpoint.ports[1]) |-> IntToStr(endpoint.ports[1][k])]
                 ELSE <<>>
    IN  [f \in {"ports", "hosts", "methods", "paths"} |->
            IF f = "ports" THEN ports
            ELSE IF endpoint[f] # None THEN endpoint[f][1] ELSE <<>>]

\* Operation(...).model_dump(exclude_unset=True, exclude_none=True): ports is always
\* a list, the other three fields are kept unless they are None.
OperationDump(endpoint) ==
    LET ports == IF endpoint.ports # None /\ endpoint.ports[1] # <<>>
                 THEN [k \in 1..Len(endpoint.ports[1]) |-> IntToStr(endpoint.ports[1][k])]
                 ELSE <<>>
        kept == {"ports"} \cup {f \in {"hosts", "methods", "paths"} : endpoint[f] # None}
    IN  [f \in kept |-> IF f = "ports" THEN ports ELSE endpoint[f][1]]

BuildOne(app, policy) ==
    LET target_service ==
            IF policy.target_service # None /\ policy.target_service[1] # <<>>
            THEN policy.target_service[1]
            ELSE policy.target_app_name
    IN  [kind |-> "AuthorizationPolicy",
         name |-> GenerateAuthorizationPolicyName(app, policy),
         namespace |-> ModelName,
         labels |-> {},
         spec |-> [targetRefs |-> <<[kind |-> "Service", group |-> <<>>,
                                     name |-> target_service]>>,
                   rules |-> <<[from |-> <<[source |-> [principals |->
                                    <<GetPeerIdentityForJujuApplication(
                                          policy.source_app_name, ModelName)>>]]>>,
                                to |-> [k \in 1..Len(policy.endpoints) |->
                                    [operation |-> OperationDump(policy.endpoints[k])]]]>>]]

\* Variant: every resource is built from the first policy of the list.
BuildFromFirstPolicy(app, mesh_info) ==
    [i \in 1..Len(mesh_info) |-> BuildOne(app, mesh_info[1])]

BuildAuthorizationPolicies(app, mesh_info) ==
    [i \in 1..Len(mesh_info) |-> BuildOne(app, mesh_info[i])]

(***************************************************************************)
(* charm.py:298-321: _construct_waypoint.                                  *)
(***************************************************************************)
WaypointPort == 15008

ConstructWaypoint(app) ==
    [kind |-> "Gateway",
     name |-> WaypointName(app),
     namespace |-> ModelName,
     labels |-> {<<<<"istio.io/waypoint-for">>, <<"a","l","l">>>>} \cup TelemetryLabels(app),
     spec |-> [gatewayClassName |-> <<"i","s","t","i","o","-","w","a","y","p","o","i","n","t">>,
               listeners |-> <<[name |-> <<"m","e","s","h">>, port |-> WaypointPort,
                                protocol |-> <<"H","B","O","N","E">>,
                                allowedRoutes |-> [namespaces |-> [from |-> "All"]]]>>]]

(***************************************************************************)
(* charm.py:169-187: the two resource managers of an application.  A       *)
(* manager is the label set that marks its objects and the kinds it lists. *)
(***************************************************************************)
\* lightkube_extensions.batch.create_charm_default_labels
CreateCharmDefaultLabels(application_name, model_name, scope) ==
    {<<<<"app.kubernetes.io/instance">>, application_name \o Dash \o model_name>>,
     <<<<"kubernetes.io/managed-by">>, application_name \o Dash \o model_name \o Dash \o scope>>}

\* Variant: the manager lists the kinds of the waypoint manager.
PolicyManagerWithWaypointTypes(app) ==
    [labels |-> CreateCharmDefaultLabels(app, ModelName, AUTHORIZATION_POLICY_LABEL),
     resource_types |-> WAYPOINT_RESOURCE_TYPES]

\* Variant: the manager marks its objects with the scope of the waypoint manager.
PolicyManagerWithWaypointScope(app) ==
    [labels |-> CreateCharmDefaultLabels(app, ModelName, WAYPOINT_LABEL),
     resource_types |-> AUTHORIZATION_POLICY_RESOURCE_TYPES]

GetAuthorizationPolicyResourceManager(app) ==
    [labels |-> CreateCharmDefaultLabels(app, ModelName, AUTHORIZATION_POLICY_LABEL),
     resource_types |-> AUTHORIZATION_POLICY_RESOURCE_TYPES]

GetWaypointResourceManager(app) ==
    [labels |-> CreateCharmDefaultLabels(app, ModelName, WAYPOINT_LABEL),
     resource_types |-> WAYPOINT_RESOURCE_TYPES]

Managers ==
    {GetWaypointResourceManager(a) : a \in Apps}
        \cup {GetAuthorizationPolicyResourceManager(a) : a \in Apps}

(***************************************************************************)
(* KubernetesResourceManager.reconcile / delete (spec section 4.1).        *)
(***************************************************************************)
\* Identity of an object for reconciliation.
Ident(o) == <<o.kind, o.name, o.namespace>>

\* The objects the manager's label selector and kinds list.
Owned(c, krm) == {o \in c : o.kind \in krm.resource_types /\ krm.labels \subseteq o.labels}

\* A desired object as the manager applies it: carrying the manager's labels.
Labelled(o, krm) == [o EXCEPT !.labels = @ \cup krm.labels]

NoOps == [created |-> 0, updated |-> 0, deleted |-> 0]

\* Apply one object: create it if no object has its identity, else replace it whole.
ApplyOne(st, o) ==
    LET present == {x \in st.cluster : Ident(x) = Ident(o)}
    IN  [cluster |-> (st.cluster \ present) \cup {o},
         ops |-> IF present = {} THEN [st.ops EXCEPT !.created = @ + 1]
                 ELSE IF present # {o} THEN [st.ops EXCEPT !.updated = @ + 1]
                 ELSE st.ops]

RECURSIVE ApplyMany(_, _, _)
ApplyMany(st, objs, n) ==
    IF n = 0 THEN st ELSE ApplyOne(ApplyMany(st, objs, n - 1), objs[n])

\* reconcile(desired): list the owned objects, apply every desired object in order,
\* delete the owned objects whose identity is not desired.  failAt < Len(desired): the
\* client raises while object failAt + 1 is applied; failAt = Len(desired): it raises
\* before the first delete; failAt = Len(desired) + 1: the call completes.
Reconcile(c, krm, desired, failAt) ==
    LET objs == [k \in 1..Len(desired) |-> Labelled(desired[k], krm)]
        ok == failAt > Len(desired)
        applied == ApplyMany([cluster |-> c, ops |-> NoOps], objs,
                             IF ok THEN Len(desired) ELSE failAt)
        wanted == {Ident(objs[k]) : k \in 1..Len(objs)}
        orphans == {o \in Owned(c, krm) : Ident(o) \notin wanted}
    IN  IF ok
        THEN [ok |-> TRUE, cluster |-> applied.cluster \ orphans,
              ops |-> [applied.ops EXCEPT !.deleted = Cardinality(orphans)]]
        ELSE [ok |-> FALSE, cluster |-> applied.cluster, ops |-> applied.ops]

\* delete(): remove every object the manager lists (fails: nothing is removed).
Delete(c, krm, fails) ==
    IF fails THEN [ok |-> FALSE, cluster |-> c, ops |-> NoOps]
    ELSE [ok |-> TRUE, cluster |-> c \ Owned(c, krm),
          ops |-> [NoOps EXCEPT !.deleted = Cardinality(Owned(c, krm))]]

(***************************************************************************)
(* charm.py:351-424: the namespace labels.                                 *)
(***************************************************************************)
\* existing_labels.get(key), as a truth value
Truthy(labels, key) == key \in DOMAIN labels /\ labels[key] # <<>>

\* Variant: existing_labels.get(key) == value
GetEquals(labels, key, value) == key \in DOMAIN labels /\ labels[key] = value

\* existing_labels.get(key) != value
GetDiffers(labels, key, value) == ~(key \in DOMAIN labels /\ labels[key] = value)

\* Variant: a patch that the server applies only to the labels that were read.
PatchIfUnchanged(current, body) ==
    IF current # body.base THEN current
    ELSE [k \in (DOMAIN current \cup DOMAIN body.set) \ body.del |->
            IF k \in DOMAIN body.set THEN body.set[k] ELSE current[k]]

\* lightkube_client.patch(Namespace, name, namespace): a merge of body.set into the
\* labels of the server, the keys of body.del (patched to None) removed.  body.base:
\* the labels of the object as it was read, which the patch does not compare.
PatchNamespace(current, body) ==
    [k \in (DOMAIN current \cup DOMAIN body.set) \ body.del |->
        IF k \in DOMAIN body.set THEN body.set[k] ELSE current[k]]

NoBody == [set |-> <<>>, del |-> {}, base |-> <<>>]

\* Variant: use-waypoint is given the identity instead of the waypoint's name.
LabelsToAddWithIdentity(app) ==
    [k \in ManagedKeys |-> IF k = DataplaneModeKey THEN Ambient ELSE AppIdentity(app)]

\* labels_to_add
LabelsToAdd(app) ==
    [k \in ManagedKeys |->
        IF k = UseWaypointKey THEN WaypointName(app)
        ELSE IF k = DataplaneModeKey THEN Ambient
        ELSE AppIdentity(app)]

\* _add_labels on the labels it read: whether it patches, and the body it sends.
AddLabels(app, existing_labels) ==
    IF (Truthy(existing_labels, UseWaypointKey) \/ Truthy(existing_labels, DataplaneModeKey))
       /\ GetDiffers(existing_labels, ManagedByKey, AppIdentity(app))
    THEN [result |-> "blocked", patch |-> FALSE, body |-> NoBody]
    ELSE [result |-> "written", patch |-> TRUE,
          body |-> [set |-> [k \in DOMAIN existing_labels \cup ManagedKeys |->
                                IF k \in ManagedKeys THEN LabelsToAdd(app)[k]
                                ELSE existing_labels[k]],
                    del |-> {}, base |-> existing_labels]]

\* Variant: _remove_labels clears the labels of the namespace.
RemoveLabelsClearingAll(app, existing_labels) ==
    IF DOMAIN existing_labels = {}
    THEN [result |-> "noop", patch |-> FALSE, body |-> NoBody]
    ELSE IF GetDiffers(existing_labels, ManagedByKey, AppIdentity(app))
    THEN [result |-> "blocked", patch |-> FALSE, body |-> NoBody]
    ELSE [result |-> "written", patch |-> TRUE,
          body |-> [set |-> <<>>, del |-> DOMAIN existing_labels, base |-> existing_labels]]

\* Variant: _remove_labels without its ownership check.
RemoveLabelsUnguarded(app, existing_labels) ==
    IF DOMAIN existing_labels = {}
    THEN [result |-> "noop", patch |-> FALSE, body |-> NoBody]
    ELSE [result |-> "written", patch |-> TRUE,
          body |-> [set |-> [k \in DOMAIN existing_labels \ ManagedKeys |->
                                existing_labels[k]],
                    del |-> ManagedKeys, base |-> existing_labels]]

\* Variant: _remove_labels that leaves the managed-by label in place.
RemoveLabelsKeepingOwner(app, existing_labels) ==
    IF DOMAIN existing_labels = {}
    THEN [result |-> "noop", patch |-> FALSE, body |-> NoBody]
    ELSE IF GetDiffers(existing_labels, ManagedByKey, AppIdentity(app))
    THEN [result |-> "blocked", patch |-> FALSE, body |-> NoBody]
    ELSE [result |-> "written", patch |-> TRUE,
          body |-> [set |-> [k \in DOMAIN existing_labels \ {UseWaypointKey,
                                                               DataplaneModeKey} |->
                                existing_labels[k]],
                    del |-> {UseWaypointKey, DataplaneModeKey},
                    base |-> existing_labels]]

\* _remove_labels on the labels it read.
RemoveLabels(app, existing_labels) ==
    IF DOMAIN existing_labels = {}
    THEN [result |-> "noop", patch |-> FALSE, body |-> NoBody]
    ELSE IF GetDiffers(existing_labels, ManagedByKey, AppIdentity(app))
    THEN [result |-> "blocked", patch |-> FALSE, body |-> NoBody]
    ELSE [result |-> "written", patch |-> TRUE,
          body |-> [set |-> [k \in DOMAIN existing_labels \ ManagedKeys |->
                                existing_labels[k]],
                    del |-> ManagedKeys, base |-> existing_labels]]

(***************************************************************************)
(* charm.py:189-213: one poll of _is_waypoint_deployment_ready.            *)
(***************************************************************************)
MaxTimeout == 30
CheckInterval == 10
Timeouts == {0, 25, MaxTimeout}

\* What lightkube_client.get(Deployment, ...) can give: an exception, a Deployment
\* without status, or a status whose two counts are each None or a number.  The
\* exception is an ApiError (the API answered with an error status: not found,
\* unauthorized) or another one (the API could not be reached).
Counts == {None, Some(0), Some(1)}
ApiErrors == {"not_found", "unauthorized"}
GetErrors == ApiErrors \cup {"unreachable"}
PollOutcomes ==
    {[found |-> FALSE, error |-> x, status |-> None] : x \in GetErrors}
        \cup {[found |-> TRUE, error |-> "none", status |-> None]}
        \cup {[found |-> TRUE, error |-> "none",
               status |-> Some([readyReplicas |-> r, replicas |-> n])] :
                r \in Counts, n \in {None, Some(1)}}

\* The three ways a poll ends: the Deployment is not found (caught, polled again),
\* the API cannot be reached (raised), the Deployment reports its replicas ready.
GateOutcomes ==
    {[found |-> FALSE, error |-> "not_found", status |-> None],
     [found |-> FALSE, error |-> "unreachable", status |-> None],
     [found |-> TRUE, error |-> "none",
      status |-> Some([readyReplicas |-> Some(1), replicas |-> Some(1)])]}

\* except ApiError (line 208): the exceptions the loop catches.
Caught(outcome) == outcome.found \/ outcome.error \in ApiErrors

\* How lightkube_client.get(Namespace, ...) or lightkube_client.patch(Namespace, ...)
\* ends: served, an ApiError, or another exception.
NamespaceOutcomes == {"ok", "unauthorized", "unreachable"}

\* deployment.status and deployment.status.readyReplicas == deployment.status.replicas
DeploymentReady(outcome) ==
    /\ outcome.found
    /\ outcome.status # None
    /\ outcome.status[1].readyReplicas = outcome.status[1].replicas

(***************************************************************************)
(* State.                                                                  *)
(***************************************************************************)
Tampered == [tampered |-> TRUE]

\* Objects of the namespace that no beacon created.
ForeignObjects ==
    {[kind |-> "Gateway", name |-> Foreign, namespace |-> ModelName, labels |-> {},
      spec |-> Tampered],
     [kind |-> "AuthorizationPolicy", name |-> Foreign, namespace |-> ModelName,
      labels |-> {<<<<"app.kubernetes.io/instance">>, Foreign>>}, spec |-> Tampered]}

Scopes == {<<a, s>> : a \in Apps, s \in {"waypoint", "policy"}}

NoCall ==
    [op |-> "none", scope |-> <<AppA, "waypoint">>, desired |-> <<>>, ok |-> FALSE,
     ops |-> NoOps]
NoLabelOp == [op |-> "none", result |-> "none", before |-> <<>>]
NoPoll == [found |-> FALSE, error |-> "unpolled", status |-> None]

\* run.app: the application whose unit runs the handler.  run.pc: the statement it is
\* at ("idle": none dispatched yet; "done": returned; "error": left by an exception).
\* run.polls, run.attempts: the loop of _is_waypoint_deployment_ready.  run.trace:
\* what the handler did so far, in order.  run.labelOp, run.call: the label operation
\* or the resource manager call that the last step made, if it made one.  run.poll:
\* what the last poll of the Deployment gave, if the last step was a poll.
\* run.leader: what is_leader() gives on the unit.
IdleRun ==
    [app |-> AppA, handler |-> "none", leader |-> TRUE, pc |-> "idle", polls |-> 0,
     attempts |-> 0, trace |-> <<>>, labelOp |-> NoLabelOp, call |-> NoCall,
     poll |-> NoPoll]

\* The handler has ended: it returned or an exception left it.
Returned == {"done", "error"}

Stale == [fresh |-> FALSE, desired |-> <<>>, repeat |-> FALSE, ops |-> NoOps]
Untracked == [s \in Scopes |-> Stale]

\* conc.of[a]: the label operation of application a that is in flight (pc = "read":
\* it has read the namespace), or its last one (pc = "done").  conc.last: the last
\* patch the API served.
NoConc ==
    [of |-> [a \in Apps |-> [pc |-> "idle", op |-> "none", snap |-> <<>>,
                             result |-> "none"]],
     last |-> [app |-> AppA, op |-> "none"]]

\* calc.fn: the function called ("none": no call yet), calc.app: the application of
\* the charm, calc.input and calc.output: its argument and what it returned.
NoCalc == [fn |-> "none", app |-> AppA, input |-> <<>>, output |-> <<>>]

\* other.pc: where the handler of the other unit is, named as run.pc is ("idle": no
\* handler of another unit is in flight; "sync_labels", "sync_patch", "ready",
\* "polling", "pebble", "sync_policies": its sync; "rm_patch", "rm_waypoint",
\* "rm_policies": its remove).  other.app: its application; other.op, other.before: its
\* label operation and the labels it read; other.polls, other.attempts: the loop of its
\* _is_waypoint_deployment_ready.
NoOther ==
    [app |-> AppA, pc |-> "idle", op |-> "none", before |-> <<>>, polls |-> 0,
     attempts |-> 0]

\* The handler moves to pc, having done events; labelOp and call describe this step.
Step(pc, events, labelOp, call) ==
    [run EXCEPT !.pc = pc, !.trace = @ \o events, !.labelOp = labelOp, !.call = call,
                !.poll = NoPoll]

\* What the environment of a handler can hand it: leader (is_leader()), modes
\* (config model-on-mesh), manage (config manage-authorization-policies), timeouts
\* (config ready-timeout), outcomes (a poll of the Deployment), connects
\* (can_connect()), infos (mesh_info()), api (how a call of the namespace API
\* ends), fails (whether a call of a resource manager may raise).  track: whether
\* the history of the reconcile calls is kept.
FullEnv(infos) ==
    [leader |-> BOOLEAN, modes |-> BOOLEAN, manage |-> BOOLEAN,
     timeouts |-> {0, MaxTimeout}, outcomes |-> GateOutcomes, connects |-> BOOLEAN,
     infos |-> infos, api |-> NamespaceOutcomes,
     fails |-> BOOLEAN, track |-> FALSE]

\* A unit that leads, with the model on the mesh, on a namespace that answers and a
\* waypoint that gets ready.
QuietEnv(infos) ==
    [leader |-> {TRUE}, modes |-> {TRUE}, manage |-> BOOLEAN, timeouts |-> {0, MaxTimeout},
     outcomes |-> {o \in PollOutcomes : DeploymentReady(o)}, connects |-> {TRUE},
     infos |-> infos, api |-> {"ok"}, fails |-> BOOLEAN, track |-> TRUE]

\* History: a completed reconcile(desired) of a scope is recorded, with whether it
\* repeats the scope's last recorded call; a record lasts until a call fails or
\* anything else changes an object of the cluster.
Recorded(e, call, after) ==
    IF ~e.track THEN hist
    ELSE [s \in Scopes |->
            IF call.op = "reconcile" /\ call.scope = s
            THEN IF call.ok
                 THEN [fresh |-> TRUE, desired |-> call.desired,
                       repeat |-> hist[s].fresh /\ hist[s].desired = call.desired,
                       ops |-> call.ops]
                 ELSE Stale
            ELSE IF after = cluster THEN hist[s] ELSE Stale]

\* failAt of a reconcile of n objects.
FailPoints(e, n) == {n + 1} \cup IF TRUE \in e.fails THEN 0..n ELSE {}

(***************************************************************************)
(* charm.py:135-149, 220-235: the four sync events and _sync_all_resources *)
(***************************************************************************)
\* config_changed, metrics_proxy_pebble_ready, service-mesh relation_changed and
\* relation_broken all call _sync_all_resources; lines 221-225.
SyncStart(app, e) ==
    /\ run.pc = "idle"
    /\ \E is_leader \in e.leader :
        run' = IF is_leader
               THEN [IdleRun EXCEPT !.app = app, !.handler = "sync", !.pc = "sync_waypoint",
                                    !.trace = <<"maintenance">>]
               ELSE [IdleRun EXCEPT !.app = app, !.handler = "sync", !.leader = FALSE,
                                    !.pc = "done", !.trace = <<"blocked">>]
    /\ UNCHANGED <<cluster, nsLabels, hist, conc, calc, other>>

\* The statement that follows krm.reconcile in _sync_waypoint_resources.
AfterWaypointReconcile == "sync_labels"

\* _sync_waypoint_resources, lines 340-344: reconcile the waypoint scope.
SyncWaypointReconcile(app, e) ==
    /\ run.app = app /\ run.pc = "sync_waypoint"
    /\ LET krm == GetWaypointResourceManager(app)
           resources_list == <<ConstructWaypoint(app)>>
       IN  \E failAt \in FailPoints(e, Len(resources_list)) :
             LET res == Reconcile(cluster, krm, resources_list, failAt)
                 call == [op |-> "reconcile", scope |-> <<app, "waypoint">>,
                          desired |-> resources_list, ok |-> res.ok, ops |-> res.ops]
             IN  /\ cluster' = res.cluster
                 /\ hist' = Recorded(e, call, res.cluster)
                 /\ run' = IF res.ok
                           THEN Step(AfterWaypointReconcile, <<"reconcile_waypoint">>,
                                     NoLabelOp, call)
                           ELSE Step("error", <<"reconcile_waypoint_failed">>,
                                     NoLabelOp, call)
    /\ UNCHANGED <<nsLabels, conc, calc, other>>

\* Variant: a namespace that cannot be read is logged and the call returns.
LabelCallLoggingGet(app, op, labels, get, patch) ==
    [result |-> IF get = "ok" THEN "noop" ELSE "get_failed",
     raised |-> FALSE,
     events |-> IF get = "ok" THEN <<op>> ELSE <<op, "get_failed">>,
     body |-> NoBody]

\* Variant: a label operation refused by the ownership check raises.
LabelCallRaisingConflict(app, op, labels, get, patch) ==
    LET dec == IF op = "claim" THEN AddLabels(app, labels) ELSE RemoveLabels(app, labels)
        result == IF get \in ApiErrors THEN "get_failed"
                  ELSE IF get # "ok" THEN "get_raised"
                  ELSE IF dec.patch /\ patch \in ApiErrors THEN "patch_failed"
                  ELSE IF dec.patch /\ patch # "ok" THEN "patch_raised"
                  ELSE dec.result
    IN  [result |-> result,
         raised |-> result \in {"get_failed", "get_raised", "patch_raised", "blocked"},
         events |-> IF result = "get_failed" THEN <<op, "get_failed">>
                    ELSE IF result = "get_raised" THEN <<op>>
                    ELSE IF dec.result = "blocked" THEN <<op, "conflict">>
                    ELSE IF ~dec.patch THEN <<op>>
                    ELSE IF result = "patch_failed" THEN <<op, "patch", "patch_failed">>
                    ELSE <<op, "patch">>,
         body |-> dec.body]

\* One call of _add_labels (op = "claim") or _remove_labels (op = "release") on the
\* labels it read: how it ends, what it did, and the body of its patch.  get, patch:
\* how the two calls of the API end.  _get_namespace logs an ApiError and returns
\* None, for which the caller raises; _patch_namespace logs an ApiError and returns;
\* any other exception of either call leaves the handler; the ownership check logs a
\* conflict and returns.
LabelCall(app, op, labels, get, patch) ==
    LET dec == IF op = "claim" THEN AddLabels(app, labels) ELSE RemoveLabels(app, labels)
        result == IF get \in ApiErrors THEN "get_failed"
                  ELSE IF get # "ok" THEN "get_raised"
                  ELSE IF dec.patch /\ patch \in ApiErrors THEN "patch_failed"
                  ELSE IF dec.patch /\ patch # "ok" THEN "patch_raised"
                  ELSE dec.result
    IN  [result |-> result,
         raised |-> result \in {"get_failed", "get_raised", "patch_raised"},
         events |-> IF result = "get_failed" THEN <<op, "get_failed">>
                    ELSE IF result = "get_raised" THEN <<op>>
                    ELSE IF dec.result = "blocked" THEN <<op, "conflict">>
                    ELSE IF ~dec.patch THEN <<op>>
                    ELSE IF result = "patch_failed" THEN <<op, "patch", "patch_failed">>
                    ELSE <<op, "patch">>,
         body |-> dec.body]

\* The labels of the namespace after the call: its patch, if it was issued and served.
Patched(c) == IF c.result = "written" THEN PatchNamespace(nsLabels, c.body) ELSE nsLabels

\* The record of a label operation: the labels it read and how it ended ("read": its
\* patch is still to be sent).
LabelOp(op, result, before) == [op |-> op, result |-> result, before |-> before]

\* _sync_waypoint_resources, lines 346-349: _add_labels or _remove_labels up to its
\* patch: _get_namespace and the ownership check on the labels read.
SyncWaypointLabels(app, e) ==
    /\ run.app = app /\ run.pc = "sync_labels"
    /\ \E model_on_mesh \in e.modes, get \in e.api :
        LET op == IF model_on_mesh THEN "claim" ELSE "release"
            c == LabelCall(app, op, nsLabels, get, "ok")
        IN  run' = IF c.result = "written"
                   THEN Step("sync_patch", <<op>>, LabelOp(op, "read", nsLabels), NoCall)
                   ELSE Step(IF c.raised THEN "error" ELSE "ready", c.events,
                             LabelOp(op, c.result, nsLabels), NoCall)
    /\ UNCHANGED <<cluster, nsLabels, hist, conc, calc, other>>

\* _patch_namespace of the label operation of a sync: the labels that were read,
\* updated, are patched onto the labels the namespace has now.
SyncWaypointPatch(app, e) ==
    /\ run.app = app /\ run.pc = "sync_patch"
    /\ \E patch \in e.api :
        LET op == run.labelOp.op
            c == LabelCall(app, op, run.labelOp.before, "ok", patch)
        IN  /\ nsLabels' = Patched(c)
            /\ run' = Step(IF c.raised THEN "error" ELSE "ready", Tail(c.events),
                           LabelOp(op, c.result, run.labelOp.before), NoCall)
    /\ UNCHANGED <<cluster, hist, conc, calc, other>>

\* _is_waypoint_deployment_ready, lines 191-193.
ReadyStart(app, e) ==
    /\ run.app = app /\ run.pc = "ready"
    /\ \E timeout \in e.timeouts :
        run' = [Step("polling", <<>>, NoLabelOp, NoCall)
                    EXCEPT !.polls = 0, !.attempts = timeout \div CheckInterval]
    /\ UNCHANGED <<cluster, nsLabels, hist, conc, calc, other>>

\* Variant: the loop makes one iteration more than attempts.
PollOnceMore(app, e) ==
    /\ run.app = app /\ run.pc = "polling"
    /\ run.polls <= run.attempts
    /\ \E outcome \in e.outcomes :
        run' = IF ~Caught(outcome)
               THEN [Step("error", <<"poll_raised">>, NoLabelOp, NoCall)
                        EXCEPT !.polls = @ + 1, !.poll = outcome]
               ELSE IF DeploymentReady(outcome)
               THEN [Step("pebble", <<"ready_true">>, NoLabelOp, NoCall)
                        EXCEPT !.polls = @ + 1, !.poll = outcome]
               ELSE [run EXCEPT !.polls = @ + 1, !.poll = outcome]
    /\ UNCHANGED <<cluster, nsLabels, hist, conc, calc, other>>

\* One iteration of the loop of _is_waypoint_deployment_ready.
Poll(app, e) ==
    /\ run.app = app /\ run.pc = "polling"
    /\ run.polls < run.attempts
    /\ \E outcome \in e.outcomes :
        run' = IF ~Caught(outcome)
               THEN [Step("error", <<"poll_raised">>, NoLabelOp, NoCall)
                        EXCEPT !.polls = @ + 1, !.poll = outcome]
               ELSE IF DeploymentReady(outcome)
               THEN [Step("pebble", <<"ready_true">>, NoLabelOp, NoCall)
                        EXCEPT !.polls = @ + 1, !.poll = outcome]
               ELSE [run EXCEPT !.polls = @ + 1, !.poll = outcome]
    /\ UNCHANGED <<cluster, nsLabels, hist, conc, calc, other>>

\* Variant: the loop is exhausted and _sync_all_resources goes on.
ReadyTimeoutIgnored(app) ==
    /\ run.app = app /\ run.pc = "polling"
    /\ run.polls >= run.attempts
    /\ run' = Step("pebble", <<"ready_false">>, NoLabelOp, NoCall)
    /\ UNCHANGED <<cluster, nsLabels, hist, conc, calc, other>>

\* The loop is exhausted: return False, and _sync_all_resources raises.
ReadyTimeout(app) ==
    /\ run.app = app /\ run.pc = "polling"
    /\ run.polls >= run.attempts
    /\ run' = Step("error", <<"ready_false">>, NoLabelOp, NoCall)
    /\ UNCHANGED <<cluster, nsLabels, hist, conc, calc, other>>

\* _setup_proxy_pebble_service, then the status of line 232.
SetupProxyPebbleService(app, e) ==
    /\ run.app = app /\ run.pc = "pebble"
    /\ \E can_connect \in e.connects :
        run' = [Step("sync_policies",
                     IF can_connect THEN <<"proxy_started", "maintenance">>
                     ELSE <<"maintenance">>, NoLabelOp, NoCall)
                    EXCEPT !.polls = 0, !.attempts = 0]
    /\ UNCHANGED <<cluster, nsLabels, hist, conc, calc, other>>

\* What _build_authorization_policies returns for each application and each
\* mesh_info of the model.
BuiltPolicies ==
    [app \in Apps |-> [mesh_info \in MeshInfos |-> BuildAuthorizationPolicies(app, mesh_info)]]

\* Variant: without manage-authorization-policies the reconcile is skipped.
SyncAuthorizationPoliciesSkipping(app, e) ==
    /\ run.app = app /\ run.pc = "sync_policies"
    /\ \E manage \in e.manage, mesh_info \in e.infos :
        LET krm == GetAuthorizationPolicyResourceManager(app)
            authorization_policies == BuiltPolicies[app][mesh_info]
        IN  \E failAt \in FailPoints(e, Len(authorization_policies)) :
              LET res == IF manage
                         THEN Reconcile(cluster, krm, authorization_policies, failAt)
                         ELSE [ok |-> TRUE, cluster |-> cluster, ops |-> NoOps]
                  call == [op |-> "reconcile", scope |-> <<app, "policy">>,
                           desired |-> IF manage THEN authorization_policies ELSE <<>>,
                           ok |-> res.ok, ops |-> res.ops]
              IN  /\ cluster' = res.cluster
                  /\ hist' = Recorded(e, call, res.cluster)
                  /\ run' = IF res.ok
                            THEN Step("done",
                                      IF manage
                                      THEN <<"build_policies", "reconcile_policies", "active">>
                                      ELSE <<"reconcile_policies", "active">>,
                                      NoLabelOp, call)
                            ELSE Step("error", <<"build_policies", "reconcile_policies_failed">>,
                                      NoLabelOp, call)
    /\ UNCHANGED <<nsLabels, conc, calc, other>>

\* _sync_authorization_policies, then the status of line 235.  build_policies: the
\* run called _build_authorization_policies (manage-authorization-policies is set).
SyncAuthorizationPolicies(app, e) ==
    /\ run.app = app /\ run.pc = "sync_policies"
    /\ \E manage \in e.manage, mesh_info \in e.infos :
        LET krm == GetAuthorizationPolicyResourceManager(app)
            authorization_policies ==
                IF manage THEN BuiltPolicies[app][mesh_info] ELSE <<>>
            built == IF manage THEN <<"build_policies">> ELSE <<>>
        IN  \E failAt \in FailPoints(e, Len(authorization_policies)) :
              LET res == Reconcile(cluster, krm, authorization_policies, failAt)
                  call == [op |-> "reconcile", scope |-> <<app, "policy">>,
                           desired |-> authorization_policies, ok |-> res.ok,
                           ops |-> res.ops]
              IN  /\ cluster' = res.cluster
                  /\ hist' = Recorded(e, call, res.cluster)
                  /\ run' = IF res.ok
                            THEN Step("done", built \o <<"reconcile_policies", "active">>,
                                      NoLabelOp, call)
                            ELSE Step("error", built \o <<"reconcile_policies_failed">>,
                                      NoLabelOp, call)
    /\ UNCHANGED <<nsLabels, conc, calc, other>>

(***************************************************************************)
(* charm.py:151-158: _on_remove.                                           *)
(***************************************************************************)
\* The remove event: _remove_labels, the first statement of the handler, which does
\* not ask is_leader(), up to its patch.
OnRemove(app, e) ==
    /\ run.pc = "idle"
    /\ \E is_leader \in e.leader, get \in e.api :
        LET c == LabelCall(app, "release", nsLabels, get, "ok")
            pending == c.result = "written"
        IN  run' = [IdleRun EXCEPT
                       !.app = app, !.handler = "remove", !.leader = is_leader,
                       !.pc = IF pending THEN "rm_patch"
                              ELSE IF c.raised THEN "error" ELSE "rm_waypoint",
                       !.trace = IF pending THEN <<"release">> ELSE c.events,
                       !.labelOp = LabelOp("release", IF pending THEN "read" ELSE c.result,
                                           nsLabels)]
    /\ UNCHANGED <<cluster, nsLabels, hist, conc, calc, other>>

\* _patch_namespace of the release of a remove.
RemovePatch(app, e) ==
    /\ run.app = app /\ run.pc = "rm_patch"
    /\ \E patch \in e.api :
        LET c == LabelCall(app, "release", run.labelOp.before, "ok", patch)
        IN  /\ nsLabels' = Patched(c)
            /\ run' = Step(IF c.raised THEN "error" ELSE "rm_waypoint", Tail(c.events),
                           LabelOp("release", c.result, run.labelOp.before), NoCall)
    /\ UNCHANGED <<cluster, hist, conc, calc, other>>

\* The loop of _on_remove: krm.delete() of the waypoint manager, then of the
\* authorization policy manager.
RemoveDelete(app, e) ==
    /\ run.app = app /\ run.pc \in {"rm_waypoint", "rm_policies"}
    /\ LET first == run.pc = "rm_waypoint"
           krm == IF first THEN GetWaypointResourceManager(app)
                  ELSE GetAuthorizationPolicyResourceManager(app)
       IN  \E fails \in e.fails :
             LET res == Delete(cluster, krm, fails)
                 call == [op |-> "delete",
                          scope |-> <<app, IF first THEN "waypoint" ELSE "policy">>,
                          desired |-> <<>>, ok |-> res.ok, ops |-> res.ops]
             IN  /\ cluster' = res.cluster
                 /\ hist' = Recorded(e, call, res.cluster)
                 /\ run' = IF ~res.ok THEN Step("error", <<"delete_failed">>, NoLabelOp, call)
                           ELSE IF first
                           THEN Step("rm_policies", <<"delete_waypoint">>, NoLabelOp, call)
                           ELSE Step("done", <<"delete_policies">>, NoLabelOp, call)
    /\ UNCHANGED <<nsLabels, conc, calc, other>>

(***************************************************************************)
(* The environment: somebody edits an object a beacon created, one object  *)
(* at a time (the edit of a second object waits for the first to be put    *)
(* right or deleted), and between the steps of a handler or before its     *)
(* event (an edit after the last step of a handler is one before the next  *)
(* event).                                                                  *)
(***************************************************************************)
Drift ==
    /\ run.pc \notin Returned
    /\ \A p \in cluster \ ForeignObjects : p.spec # Tampered
    /\ \E o \in cluster :
        /\ o.spec # Tampered
        /\ cluster' = (cluster \ {o}) \cup {[o EXCEPT !.spec = Tampered]}
    /\ hist' = Untracked
    /\ UNCHANGED <<nsLabels, run, conc, calc, other>>

\* The handler of the unit has ended, and the unit waits for its next event.
HandlerReturns(app) ==
    /\ run.app = app /\ run.pc \in Returned
    /\ run' = IdleRun
    /\ UNCHANGED <<cluster, nsLabels, hist, conc, calc, other>>

Handlers(app, e) ==
    \/ SyncStart(app, e)
    \/ SyncWaypointReconcile(app, e)
    \/ SyncWaypointLabels(app, e)
    \/ SyncWaypointPatch(app, e)
    \/ ReadyStart(app, e)
    \/ Poll(app, e)
    \/ ReadyTimeout(app)
    \/ SetupProxyPebbleService(app, e)
    \/ SyncAuthorizationPolicies(app, e)
    \/ OnRemove(app, e)
    \/ RemovePatch(app, e)
    \/ RemoveDelete(app, e)
    \/ HandlerReturns(app)

(***************************************************************************)
(* The handler of another unit, of application app, whose API calls are    *)
(* served between those of the handler that is followed: a sync on a unit  *)
(* that leads, or a remove.                                                *)
(***************************************************************************)
\* A call of a resource manager made by the other unit, for the history.
OtherCall(app, scope, ok) ==
    [op |-> "other", scope |-> <<app, scope>>, desired |-> <<>>, ok |-> ok, ops |-> NoOps]

\* _sync_all_resources on the other unit, lines 221-226, up to krm.reconcile of
\* _sync_waypoint_resources (lines 340-344); a reconcile that raises ends the handler.
OtherSyncWaypointReconcile(app, e) ==
    /\ other.pc = "idle"
    /\ LET krm == GetWaypointResourceManager(app)
           resources_list == <<ConstructWaypoint(app)>>
       IN  \E failAt \in FailPoints(e, Len(resources_list)) :
             LET res == Reconcile(cluster, krm, resources_list, failAt)
             IN  /\ cluster' = res.cluster
                 /\ hist' = Recorded(e, OtherCall(app, "waypoint", res.ok), res.cluster)
                 /\ other' = IF res.ok
                              THEN [NoOther EXCEPT !.app = app, !.pc = "sync_labels"]
                              ELSE NoOther
    /\ UNCHANGED <<nsLabels, run, conc, calc>>

\* _sync_waypoint_resources, lines 346-349, on the other unit: _get_namespace and the
\* ownership check of its _add_labels or _remove_labels.  A namespace that cannot be
\* read ends the handler; an operation that sends no patch returns to the gate.
OtherSyncLabels(app, e) ==
    /\ other.app = app /\ other.pc = "sync_labels"
    /\ \E model_on_mesh \in e.modes, get \in e.api :
        LET op == IF model_on_mesh THEN "claim" ELSE "release"
            c == LabelCall(app, op, nsLabels, get, "ok")
        IN  other' = IF c.result = "written"
                     THEN [NoOther EXCEPT !.app = app, !.pc = "sync_patch", !.op = op,
                                          !.before = nsLabels]
                     ELSE IF c.raised THEN NoOther
                     ELSE [NoOther EXCEPT !.app = app, !.pc = "ready"]
    /\ UNCHANGED <<cluster, nsLabels, run, hist, conc, calc>>

\* _on_remove on the other unit, up to the patch of its _remove_labels; a namespace
\* that cannot be read ends the handler, which then changed nothing.
OtherRemove(app, e) ==
    /\ other.pc = "idle"
    /\ \E get \in e.api :
        LET c == LabelCall(app, "release", nsLabels, get, "ok")
        IN  /\ ~c.raised
            /\ other' = IF c.result = "written"
                         THEN [NoOther EXCEPT !.app = app, !.pc = "rm_patch",
                                              !.op = "release", !.before = nsLabels]
                         ELSE [NoOther EXCEPT !.app = app, !.pc = "rm_waypoint"]
    /\ UNCHANGED <<cluster, nsLabels, run, hist, conc, calc>>

\* _patch_namespace of the label operation of the other unit: the labels it read,
\* updated, are patched onto the labels the namespace has now.  An exception that is
\* not an ApiError ends the handler; else a sync goes on to its readiness gate and a
\* remove to its loop.
OtherPatch(app, e) ==
    /\ other.app = app /\ other.pc \in {"sync_patch", "rm_patch"}
    /\ \E patch \in e.api :
        LET c == LabelCall(app, other.op, other.before, "ok", patch)
        IN  /\ nsLabels' = Patched(c)
            /\ other' = IF c.raised THEN NoOther
                         ELSE [NoOther EXCEPT
                                  !.app = app,
                                  !.pc = IF other.pc = "rm_patch" THEN "rm_waypoint"
                                         ELSE "ready"]
    /\ UNCHANGED <<cluster, run, hist, conc, calc>>

\* _is_waypoint_deployment_ready on the other unit, lines 191-193.
OtherReadyStart(app, e) ==
    /\ other.app = app /\ other.pc = "ready"
    /\ \E timeout \in e.timeouts :
        other' = [NoOther EXCEPT !.app = app, !.pc = "polling",
                                 !.attempts = timeout \div CheckInterval]
    /\ UNCHANGED <<cluster, nsLabels, run, hist, conc, calc>>

\* One iteration of the loop of _is_waypoint_deployment_ready on the other unit: an
\* exception that is not caught ends the handler, a Deployment that is ready ends
\* the loop, else the loop sleeps and goes on.
OtherPoll(app, e) ==
    /\ other.app = app /\ other.pc = "polling"
    /\ other.polls < other.attempts
    /\ \E outcome \in e.outcomes :
        other' = IF ~Caught(outcome) THEN NoOther
                 ELSE IF DeploymentReady(outcome)
                 THEN [NoOther EXCEPT !.app = app, !.pc = "pebble"]
                 ELSE [other EXCEPT !.polls = @ + 1]
    /\ UNCHANGED <<cluster, nsLabels, run, hist, conc, calc>>

\* The loop of the other unit is exhausted: return False, and its
\* _sync_all_resources raises.
OtherReadyTimeout(app) ==
    /\ other.app = app /\ other.pc = "polling"
    /\ other.polls >= other.attempts
    /\ other' = NoOther
    /\ UNCHANGED <<cluster, nsLabels, run, hist, conc, calc>>

\* _setup_proxy_pebble_service on the other unit, then the status of line 232: with
\* or without a container to connect to, the handler goes on.
OtherSetupProxyPebbleService(app, e) ==
    /\ other.app = app /\ other.pc = "pebble"
    /\ \E can_connect \in e.connects :
        other' = [NoOther EXCEPT !.app = app, !.pc = "sync_policies"]
    /\ UNCHANGED <<cluster, nsLabels, run, hist, conc, calc>>

\* _sync_authorization_policies on the other unit, which ends its sync.
OtherSyncAuthorizationPolicies(app, e) ==
    /\ other.app = app /\ other.pc = "sync_policies"
    /\ \E authorization_policies \in
            {IF manage THEN BuiltPolicies[app][mesh_info] ELSE <<>> :
                manage \in e.manage, mesh_info \in e.infos} :
        LET krm == GetAuthorizationPolicyResourceManager(app)
        IN  \E failAt \in FailPoints(e, Len(authorization_policies)) :
              LET res == Reconcile(cluster, krm, authorization_policies, failAt)
              IN  /\ cluster' = res.cluster
                  /\ hist' = Recorded(e, OtherCall(app, "policy", res.ok), res.cluster)
    /\ other' = NoOther
    /\ UNCHANGED <<nsLabels, run, conc, calc>>

\* The loop of _on_remove on the other unit: krm.delete() of the waypoint manager,
\* then of the authorization policy manager; a delete that raises ends the handler.
OtherDelete(app, e) ==
    /\ other.app = app /\ other.pc \in {"rm_waypoint", "rm_policies"}
    /\ LET first == other.pc = "rm_waypoint"
           krm == IF first THEN GetWaypointResourceManager(app)
                  ELSE GetAuthorizationPolicyResourceManager(app)
       IN  \E fails \in e.fails :
             LET res == Delete(cluster, krm, fails)
             IN  /\ cluster' = res.cluster
                 /\ hist' = Recorded(e, OtherCall(app, IF first THEN "waypoint" ELSE "policy",
                                                   res.ok), res.cluster)
                 /\ other' = IF res.ok /\ first
                              THEN [NoOther EXCEPT !.app = app, !.pc = "rm_policies"]
                              ELSE NoOther
    /\ UNCHANGED <<nsLabels, run, conc, calc>>

OtherUnit(app, e) ==
    \/ OtherSyncWaypointReconcile(app, e)
    \/ OtherSyncLabels(app, e)
    \/ OtherPatch(app, e)
    \/ OtherReadyStart(app, e)
    \/ OtherPoll(app, e)
    \/ OtherReadyTimeout(app)
    \/ OtherSetupProxyPebbleService(app, e)
    \/ OtherSyncAuthorizationPolicies(app, e)
    \/ OtherRemove(app, e)
    \/ OtherDelete(app, e)

(***************************************************************************)
(* Spec: the units of two beacon applications of one model, on a namespace *)
(* nobody else labels: the steps of a handler of application a are         *)
(* followed, and the API calls of the handler of another unit, of either   *)
(* application, are served between them.                                   *)
(***************************************************************************)
\* The labels of a namespace that no beacon has labelled yet: none, or the name label
\* that Kubernetes sets.
FreshLabels == {<<>>, [k \in {OtherKey} |-> ModelName]}

Init ==
    /\ cluster = ForeignObjects
    /\ nsLabels \in FreshLabels
    /\ run = IdleRun
    /\ hist = Untracked
    /\ conc = NoConc
    /\ calc = NoCalc
    /\ other = NoOther

Next ==
    \/ Handlers(AppA, FullEnv(ConcurrentInfos))
    \/ \E app \in Apps : OtherUnit(app, FullEnv(ConcurrentInfos))

Spec == Init /\ [][Next]_vars

(***************************************************************************)
(* SpecSerial: the same units when their triggers are serialised: each     *)
(* handler runs to its end before a call of another unit is served.        *)
(***************************************************************************)
NextSerial == \E app \in Apps : Handlers(app, FullEnv(MeshInfos))

SpecSerial == Init /\ [][NextSerial]_vars

(***************************************************************************)
(* SpecReconcile: the units of application a alone, on a cluster whose     *)
(* objects somebody may edit; the history of its reconcile calls is kept.  *)
(***************************************************************************)
\* What another unit meets here: the calls of its resource managers return; those
\* that raise are in Spec.
QuietOtherEnv == [QuietEnv(ConcurrentInfos) EXCEPT !.fails = {FALSE}]

NextReconcile ==
    \/ Handlers(AppA, QuietEnv(MeshInfos))
    \/ OtherUnit(AppA, QuietOtherEnv)
    \/ Drift

SpecReconcile == Init /\ [][NextReconcile]_vars

(***************************************************************************)
(* SpecReady: the units of application a, with every ready-timeout and     *)
(* every outcome of a poll of the Deployment, on a namespace that answers. *)
(***************************************************************************)
ReadyEnv ==
    [leader |-> {TRUE}, modes |-> {TRUE}, manage |-> {FALSE}, timeouts |-> Timeouts,
     outcomes |-> PollOutcomes, connects |-> BOOLEAN, infos |-> {<<>>},
     api |-> {"ok"}, fails |-> {FALSE}, track |-> FALSE]

NextReady == Handlers(AppA, ReadyEnv) \/ OtherUnit(AppA, ReadyEnv)

SpecReady == Init /\ [][NextReady]_vars

(***************************************************************************)
(* SpecLabels: the units of the two applications on a namespace that       *)
(* starts with any labels.                                                 *)
(***************************************************************************)
UseWaypointValues == {<<>>, WaypointName(AppA), Foreign}
DataplaneModeValues == {<<>>, Ambient}
ManagedByValues == {<<>>, AppIdentity(AppA), AppIdentity(AppB), Foreign}

ValuesOf(k) ==
    IF k = UseWaypointKey THEN UseWaypointValues
    ELSE IF k = DataplaneModeKey THEN DataplaneModeValues
    ELSE IF k = ManagedByKey THEN ManagedByValues
    ELSE {ModelName}

\* Every label set over the three managed keys and one other key.
LabelStates ==
    UNION {{l \in [K -> UseWaypointValues \cup DataplaneModeValues \cup ManagedByValues
                          \cup {ModelName}] : \A k \in K : l[k] \in ValuesOf(k)} :
           K \in SUBSET (ManagedKeys \cup {OtherKey})}

LabelEnv ==
    [leader |-> {TRUE}, modes |-> BOOLEAN, manage |-> {FALSE}, timeouts |-> {0, MaxTimeout},
     outcomes |-> {o \in PollOutcomes : DeploymentReady(o)}, connects |-> {TRUE},
     infos |-> {<<>>}, api |-> NamespaceOutcomes, fails |-> {FALSE}, track |-> FALSE]

InitLabels ==
    /\ cluster = ForeignObjects
    /\ nsLabels \in LabelStates
    /\ run = IdleRun
    /\ hist = Untracked
    /\ conc = NoConc
    /\ calc = NoCalc
    /\ other = NoOther

NextLabels == Handlers(AppA, LabelEnv) \/ \E app \in Apps : OtherUnit(app, LabelEnv)

SpecLabels == InitLabels /\ [][NextLabels]_vars

(***************************************************************************)
(* SpecRace: _add_labels and _remove_labels of the two units when nothing  *)
(* serialises them: _get_namespace and _patch_namespace are two steps.     *)
(***************************************************************************)
\* _get_namespace() of a claim or a release.
ConcRead(app) ==
    /\ conc.of[app].pc \in {"idle", "done"}
    /\ \E op \in {"claim", "release"} :
        conc' = [conc EXCEPT !.of[app] = [pc |-> "read", op |-> op, snap |-> nsLabels,
                                         result |-> "none"]]
    /\ UNCHANGED <<cluster, nsLabels, run, hist, calc, other>>

\* The ownership check on the labels that were read, and _patch_namespace().
ConcWrite(app) ==
    /\ conc.of[app].pc = "read"
    /\ \E patch \in NamespaceOutcomes :
        LET c == LabelCall(app, conc.of[app].op, conc.of[app].snap, "ok", patch)
        IN  /\ nsLabels' = Patched(c)
            /\ conc' = [conc EXCEPT
                           !.of[app].pc = "done",
                           !.of[app].result = c.result,
                           !.last = IF c.result = "written"
                                    THEN [app |-> app, op |-> conc.of[app].op] ELSE @]
    /\ UNCHANGED <<cluster, run, hist, calc, other>>

NextRace == \E app \in Apps : ConcRead(app) \/ ConcWrite(app)

SpecRace == Init /\ [][NextRace]_vars

(***************************************************************************)
(* SpecBuild: _build_authorization_policies and                            *)
(* _generate_authorization_policy_name called on their own, on every       *)
(* policy of the model and on application names up to the length Juju      *)
(* allows.                                                                 *)
(***************************************************************************)
\* An application name that, with the model name, has the 126 characters that Juju
\* allows an application name and a model name together.
LongApp == [i \in 1..125 |-> "z"]

\* The mesh_info lists: those of a sync, every single policy, every policy followed
\* by one of the first four.
BuildInputs ==
    MeshInfos
        \cup {<<AllPolicies[i]>> : i \in 1..Len(AllPolicies)}
        \cup {<<AllPolicies[i], BasePolicies[j]>> :
                 i \in 1..Len(AllPolicies), j \in 1..Len(BasePolicies)}

\* A call is made once, from the initial state.
BuildCall ==
    /\ calc.fn = "none"
    /\ \E app \in Apps, mesh_info \in BuildInputs :
        calc' = [fn |-> "build", app |-> app, input |-> mesh_info,
                 output |-> BuildAuthorizationPolicies(app, mesh_info)]
    /\ UNCHANGED <<cluster, nsLabels, run, hist, conc, other>>

NameCall ==
    /\ calc.fn = "none"
    /\ \E app \in Apps \cup {LongApp}, i \in 1..Len(AllPolicies) :
        calc' = [fn |-> "name", app |-> app, input |-> AllPolicies[i],
                 output |-> GenerateAuthorizationPolicyName(app, AllPolicies[i])]
    /\ UNCHANGED <<cluster, nsLabels, run, hist, conc, other>>

NextBuild == BuildCall \/ NameCall

SpecBuild == Init /\ [][NextBuild]_vars

(***************************************************************************)
(* Properties.                                                             *)
(***************************************************************************)
\* The label of a scope, and the objects that carry the labels of a scope.
ScopeLabel(s) == IF s[2] = "waypoint" THEN WAYPOINT_LABEL ELSE AUTHORIZATION_POLICY_LABEL
\* The labels that the manager of each scope puts on its objects.
LabelsOf == [s \in Scopes |-> CreateCharmDefaultLabels(s[1], ModelName, ScopeLabel(s))]
Carries(o, s) == LabelsOf[s] \subseteq o.labels
InScope(c, s) == {o \in c : Carries(o, s)}
OnlyIn(c, s, t) == {o \in c : Carries(o, s) /\ ~Carries(o, t)}

\* The objects of a desired list as they are expected in the cluster.
Expected(s, desired) ==
    {[desired[k] EXCEPT !.labels = @ \cup LabelsOf[s]] : k \in 1..Len(desired)}

\* The step just taken was a call of the resource manager of scope s.
Called(s) == run' # run /\ run'.call.op # "none" /\ run'.call.scope = s

\* The step just taken ended a label operation op of application app: its ownership
\* check refused it or found nothing to do, one of its API calls failed, or its patch
\* was served.  run'.labelOp.before are the labels the operation had read.
LabelStep(app, op) ==
    run' # run /\ run'.app = app /\ run'.labelOp.op = op /\ run'.labelOp.result # "read"

Present(l, k) == k \in DOMAIN l
NonEmpty(l, k) == k \in DOMAIN l /\ l[k] # <<>>
Issued(result) == result \in {"written", "patch_failed", "patch_raised"}

\* The three managed keys read the same (presence and value) in l and m.
SameManaged(l, m) ==
    \A k \in ManagedKeys : (Present(l, k) <=> Present(m, k)) /\ (Present(l, k) => l[k] = m[k])

\* The other keys read the same in l and m.
SameOthers(l, m) ==
    \A k \in (DOMAIN l \cup DOMAIN m) \ ManagedKeys :
        Present(l, k) /\ Present(m, k) /\ l[k] = m[k]

\* The three managed keys carry the values of application app.
ClaimedBy(l, app) ==
    /\ ManagedKeys \subseteq DOMAIN l
    /\ l[UseWaypointKey] = WaypointName(app)
    /\ l[DataplaneModeKey] = Ambient
    /\ l[ManagedByKey] = app \o Dash \o ModelName

Happened(ev) == \E i \in DOMAIN run.trace : run.trace[i] = ev
\* Every occurrence of ev2 in the trace of the run comes after an occurrence of ev1.
Precedes(ev1, ev2) ==
    \A j \in DOMAIN run.trace :
        run.trace[j] = ev2 => \E i \in 1..(j - 1) : run.trace[i] = ev1

\* C1 (idempotence): when a scope is reconciled to the same desired list twice in
\* succession and nothing changed the cluster in between, the second call creates,
\* updates and deletes nothing.
C1_Idempotence ==
    \A s \in Scopes : hist[s].fresh /\ hist[s].repeat => hist[s].ops = NoOps

\* A second reconcile of the policy scope to the same two policies has just run.
C1_Witness ==
    /\ run.call.op = "reconcile" /\ run.call.scope = <<AppA, "policy">> /\ run.call.ok
    /\ hist[<<AppA, "policy">>].repeat
    /\ Len(hist[<<AppA, "policy">>].desired) = 2
    /\ hist[<<AppA, "policy">>].desired[1] # hist[<<AppA, "policy">>].desired[2]

\* C2 (convergence): after a completed reconcile to D2, whatever the scope was
\* reconciled to before, the objects of the scope are exactly those of D2, each with
\* D2's spec.
C2_Convergence ==
    \A s \in Scopes : hist[s].fresh => InScope(cluster, s) = Expected(s, hist[s].desired)

\* A reconcile of the policy scope has just deleted an object of the former desired
\* list and created one of the new list.
C2_Witness ==
    /\ run.call.op = "reconcile" /\ run.call.scope = <<AppA, "policy">> /\ run.call.ok
    /\ hist[<<AppA, "policy">>].fresh
    /\ run.call.ops.deleted >= 1 /\ run.call.ops.created >= 1

\* C3 (scope isolation): a call of the resource manager of one scope (reconcile in a
\* sync, delete in a remove) leaves every object that belongs only to another scope
\* as it is, and adds none.
C3_ScopeIsolation ==
    [][\A t \in Scopes : Called(t) =>
          \A s \in Scopes \ {t} : OnlyIn(cluster', s, t) = OnlyIn(cluster, s, t)]_vars

\* The policy scope of application a was reconciled, deleting its policy, while the
\* waypoints of both applications and the policy of application b exist.
C3_Witness ==
    /\ run.call.op = "reconcile" /\ run.call.scope = <<AppA, "policy">>
    /\ run.call.ops.deleted >= 1
    /\ InScope(cluster, <<AppA, "waypoint">>) # {}
    /\ InScope(cluster, <<AppB, "waypoint">>) # {}
    /\ InScope(cluster, <<AppB, "policy">>) # {}

\* C4 (claim guard): whenever managed-by is set to an identity that is not the
\* identity of the instance, claim fails, changes no label and issues no write.
C4_ClaimGuardAsStated ==
    [][\A app \in Apps :
          LET read == run'.labelOp.before
          IN  LabelStep(app, "claim") /\ Present(read, ManagedByKey)
                  /\ read[ManagedByKey] # app \o Dash \o ModelName
              => nsLabels' = nsLabels /\ ~Issued(run'.labelOp.result)]_vars

\* C5 (release guard): when managed-by is absent or not the identity of the
\* instance, release changes no label and issues no write; when it is the identity
\* of the instance, release issues a write that, once served, leaves none of the
\* three keys and every other label as it was.
C5_ReleaseGuard ==
    [][\A app \in Apps :
          LabelStep(app, "release") =>
            LET read == run'.labelOp.before
                owned == Present(read, ManagedByKey)
                            /\ read[ManagedByKey] = app \o Dash \o ModelName
                result == run'.labelOp.result
            IN  /\ ~owned => nsLabels' = nsLabels /\ ~Issued(result)
                /\ owned /\ result \notin {"get_failed", "get_raised"} => Issued(result)
                /\ owned /\ result = "written" =>
                      DOMAIN nsLabels' \cap ManagedKeys = {} /\ SameOthers(nsLabels, nsLabels')]_vars

\* A release of application a removed its three labels and kept the other label.
C5_Witness ==
    /\ run.app = AppA /\ run.labelOp.op = "release" /\ run.labelOp.result = "written"
    /\ ManagedKeys \subseteq DOMAIN run.labelOp.before
    /\ DOMAIN nsLabels = {OtherKey}

\* C6 as stated: whenever managed-by is absent or the identity of the instance, a
\* claim whose API calls are served writes the three labels of the instance.
C6_ClaimSucceedsAsStated ==
    [][\A app \in Apps :
          LET read == run'.labelOp.before
          IN  LabelStep(app, "claim")
                  /\ (~Present(read, ManagedByKey)
                        \/ read[ManagedByKey] = app \o Dash \o ModelName)
                  /\ run'.labelOp.result \notin {"get_failed", "get_raised", "patch_failed",
                                                 "patch_raised"}
              => run'.labelOp.result = "written" /\ ClaimedBy(nsLabels', app)]_vars

\* C6 (claim succeeds), amended: whenever managed-by is the identity of the instance,
\* or managed-by is absent and neither use-waypoint nor dataplane-mode has a non-empty
\* value, a claim whose API calls are served writes the three labels of the instance
\* and leaves every other label as it was.
C6_ClaimSucceeds ==
    [][\A app \in Apps :
          LET read == run'.labelOp.before
          IN  LabelStep(app, "claim")
                  /\ \/ Present(read, ManagedByKey)
                           /\ read[ManagedByKey] = app \o Dash \o ModelName
                     \/ ~Present(read, ManagedByKey)
                           /\ ~NonEmpty(read, UseWaypointKey)
                           /\ ~NonEmpty(read, DataplaneModeKey)
                  /\ run'.labelOp.result \notin {"get_failed", "get_raised", "patch_failed",
                                                 "patch_raised"}
              => /\ run'.labelOp.result = "written"
                 /\ ClaimedBy(nsLabels', app)
                 /\ SameOthers(nsLabels, nsLabels')]_vars

\* A claim of application a took over labels it owned with other values.
C6_Witness ==
    /\ run.app = AppA /\ run.labelOp.op = "claim" /\ run.labelOp.result = "written"
    /\ Present(run.labelOp.before, ManagedByKey)
    /\ run.labelOp.before[ManagedByKey] = <<"a", "-", "m">>
    /\ Present(run.labelOp.before, UseWaypointKey)
    /\ run.labelOp.before[UseWaypointKey] = Foreign
    /\ ClaimedBy(nsLabels, AppA)

\* C7 (label-set invariant): from a namespace without the three keys, under
\* serialised claims and releases of the instances, the three keys are all present
\* or all absent, and every patch of them was served while managed-by was absent or
\* the identity of the writer.
C7_LabelSet ==
    /\ DOMAIN nsLabels \cap ManagedKeys \in {{}, ManagedKeys}
    /\ run.labelOp.result = "written" =>
          \/ ~Present(run.labelOp.before, ManagedByKey)
          \/ run.labelOp.before[ManagedByKey] = run.app \o Dash \o ModelName

\* Application b has claimed the namespace after application a synced.
C7_Witness ==
    /\ run.app = AppB /\ run.labelOp.op = "claim" /\ run.labelOp.result = "written"
    /\ ClaimedBy(nsLabels, AppB)
    /\ InScope(cluster, <<AppA, "waypoint">>) # {}

\* C8 (no clobbering under serialised triggers): while the namespace carries the
\* three keys with managed-by the identity of one instance, no step of a sync or a
\* remove of another instance changes any of the three keys.
C8_NoClobber ==
    [][\A a \in Apps, b \in Apps :
          /\ a # b
          /\ ManagedKeys \subseteq DOMAIN nsLabels
          /\ nsLabels[ManagedByKey] = a \o Dash \o ModelName
          /\ run' # run /\ run'.app = b
          => SameManaged(nsLabels, nsLabels')]_vars

\* A claim of application b was blocked on the namespace that application a owns.
C8_Witness ==
    /\ run.app = AppB /\ run.labelOp.op = "claim" /\ run.labelOp.result = "blocked"
    /\ ClaimedBy(nsLabels, AppA)

\* C9 (last writer wins): when reads and writes of label operations interleave, the
\* labels of the namespace are those of the operation whose patch was served last,
\* whatever the namespace held when that operation read it.
C9_LastWriterWins ==
    /\ conc.last.op = "claim" => ClaimedBy(nsLabels, conc.last.app)
    /\ conc.last.op = "release" => DOMAIN nsLabels \cap ManagedKeys = {}

\* Both applications read a namespace nobody owned, both passed the check and both
\* wrote: the labels are those of application b, the claim of application a is lost.
C9_Witness ==
    /\ \A a \in Apps :
          /\ conc.of[a].pc = "done" /\ conc.of[a].op = "claim"
          /\ conc.of[a].result = "written"
          /\ conc.of[a].snap = <<>>
    /\ ClaimedBy(nsLabels, AppB)

\* C10 (sync ordering): in a sync the label operation comes after the reconcile of
\* the waypoint scope and after the readiness gate returned true, and a run whose
\* readiness gate returned false issued no write to the labels.
C10_OrderAsStated ==
    run.handler = "sync" =>
        /\ \A op \in {"claim", "release"} :
              Precedes("reconcile_waypoint", op) /\ Precedes("ready_true", op)
        /\ Happened("ready_false") => ~Happened("patch")

\* C11 (readiness failure is fatal): a sync run whose readiness gate returned false
\* has halted with an error, has not started the proxy, has not reconciled the policy
\* scope and has not set the active status, and no step of the run from the reconcile
\* of the waypoint to the return of the gate changes an object of the cluster: the
\* waypoint it reconciled is left as it is.
C11_ReadinessFatal ==
    [][LET did(ev) == \E i \in DOMAIN run'.trace : run'.trace[i] = ev
       IN  /\ run'.handler = "sync" /\ did("ready_false") =>
                 /\ run'.pc = "error"
                 /\ \A ev \in {"proxy_started", "reconcile_policies",
                               "reconcile_policies_failed", "active"} : ~did(ev)
           /\ run' # run /\ Happened("reconcile_waypoint")
                 /\ run'.pc \in {"sync_patch", "ready", "polling", "pebble", "error"}
                 /\ ~did("reconcile_policies_failed")
               => cluster' = cluster]_vars

\* The gate returned false after three polls of a waypoint whose reconcile created it.
C11_Witness ==
    /\ run.handler = "sync" /\ run.pc = "error" /\ Happened("ready_false")
    /\ run.polls = 3 /\ run.attempts = 3
    /\ InScope(cluster, <<run.app, "waypoint">>) # {}

\* C12 as stated: a sync run whose write of the namespace labels failed with a client
\* error has halted with an error, has not reconciled the policies and has not set
\* the active status.
C12_AbortAsStated ==
    run.handler = "sync" /\ Happened("patch_failed") =>
        /\ run.pc = "error"
        /\ ~Happened("reconcile_policies") /\ ~Happened("active")

\* C12 (errors abort the run), amended: a step of a sync run that raises (a failed
\* reconcile of the waypoint scope, a namespace that cannot be read, a call of the
\* namespace API that ends with an exception other than a client error, a readiness
\* gate that returned false or whose poll raised) halts the run, which then
\* reconciles no policies and does not become active, and a failed reconcile of the
\* policies halts it before the active status; a write of the namespace labels that
\* fails with a client error is logged and not raised: that step leaves the labels
\* as they are and the run goes on to the readiness gate.
C12_Abort ==
    [][run'.handler = "sync" =>
          LET did(ev) == \E i \in DOMAIN run'.trace : run'.trace[i] = ev
          IN  /\ \A ev \in {"reconcile_waypoint_failed", "get_failed", "ready_false",
                             "poll_raised"} :
                    did(ev) =>
                        /\ run'.pc = "error"
                        /\ \A later \in {"reconcile_policies", "reconcile_policies_failed",
                                         "active"} : ~did(later)
              /\ run'.labelOp.result \in {"get_raised", "patch_raised"} =>
                    run'.pc = "error" /\ (run' # run => nsLabels' = nsLabels)
              /\ did("reconcile_policies_failed") => run'.pc = "error" /\ ~did("active")
              /\ run'.labelOp.result = "patch_failed" =>
                    run'.pc = "ready" /\ (run' # run => nsLabels' = nsLabels)
              /\ did("active") => run'.pc = "done"]_vars

\* A run whose write of the labels failed has reconciled the policies and is active,
\* on a namespace without the labels it tried to write.
C12_Witness ==
    /\ run.handler = "sync" /\ run.pc = "done"
    /\ Happened("patch_failed") /\ Happened("claim") /\ Happened("active")
    /\ ~ClaimedBy(nsLabels, run.app)

\* C13 (disabling policy management tears the scope down): the step that completes a
\* sync run without manage-authorization-policies reconciles the policy scope to the
\* empty list: it creates nothing, deletes every object of the scope, whatever earlier
\* runs created, and leaves the objects of the waypoint scope as they were.
C13_Teardown ==
    [][\A app \in Apps :
          /\ run' # run /\ run'.app = app /\ run'.handler = "sync" /\ run'.pc = "done"
          /\ \E i \in DOMAIN run'.trace : run'.trace[i] = "active"
          /\ \A i \in DOMAIN run'.trace : run'.trace[i] # "build_policies"
          => /\ run'.call.op = "reconcile" /\ run'.call.scope = <<app, "policy">>
             /\ run'.call.desired = <<>>
             /\ InScope(cluster', <<app, "policy">>) = {}
             /\ run'.call.ops.created = 0 /\ run'.call.ops.updated = 0
             /\ run'.call.ops.deleted = Cardinality(InScope(cluster, <<app, "policy">>))
             /\ InScope(cluster', <<app, "waypoint">>) = InScope(cluster, <<app, "waypoint">>)]_vars

\* A run without policy management deleted the two policies an earlier run created
\* and kept the waypoint.
C13_Witness ==
    /\ run.handler = "sync" /\ run.pc = "done" /\ Happened("active")
    /\ ~Happened("build_policies")
    /\ run.call.ops.deleted = 2 /\ run.call.ops.created = 0
    /\ InScope(cluster, <<run.app, "policy">>) = {}
    /\ InScope(cluster, <<run.app, "waypoint">>) # {}

\* C14 (teardown on removal): each teardown that a remove run completes leaves its
\* scope empty, and the step that ends a remove run by an error of the release of the
\* labels (the namespace cannot be read, or a call of the namespace API raised) or by
\* a failed teardown of the waypoint scope leaves the policy scope of its application
\* empty: the policy scope is torn down all the same.
C14_IndependentAsStated ==
    [][LET did(ev) == \E i \in DOMAIN run'.trace : run'.trace[i] = ev
       IN  /\ run' # run /\ run'.handler = "remove" /\ run'.call.op = "delete"
                 /\ run'.call.ok
               => InScope(cluster', run'.call.scope) = {}
           /\ run' # run /\ run'.handler = "remove" /\ run'.pc = "error"
                 /\ \/ did("get_failed")
                    \/ run'.labelOp.result \in {"get_raised", "patch_raised"}
                    \/ did("delete_failed") /\ ~did("delete_waypoint")
               => InScope(cluster', <<run'.app, "policy">>) = {}]_vars

\* C15 (the readiness poll is bounded): the loop makes at most timeout / 10 checks
\* (integer division: at most 3 for a timeout of 30), returns true at the first check
\* that reports ready, after which no further check is made, and returns false once
\* all its checks were made and none reported ready.
C15_BoundedPoll ==
    run.handler = "sync" =>
        /\ run.polls <= run.attempts
        /\ \E timeout \in {0, 25, MaxTimeout} :
              /\ run.attempts * 10 <= timeout /\ timeout < (run.attempts + 1) * 10
              /\ timeout = 30 => run.polls <= 3
        /\ Happened("ready_true") => ~Happened("ready_false") /\ run.pc # "polling"
        /\ run.pc = "pebble" => Happened("ready_true") /\ run.polls >= 1
        /\ Happened("ready_false") => run.polls = run.attempts /\ run.pc = "error"

\* The gate returned true at the second of three checks.
C15_Witness ==
    /\ run.handler = "sync" /\ run.pc = "pebble" /\ Happened("ready_true")
    /\ run.polls = 2 /\ run.attempts = 3

\* C16 (an ownership conflict does not stop the sync): the step of a claim or release
\* that the ownership check refuses changes no label and the run goes on to the readiness
\* gate; such a run ends in an error only by the readiness gate or the reconcile of
\* the policies, and otherwise returns with the policies reconciled and the active
\* status.
C16_ConflictContinues ==
    [][run'.handler = "sync" =>
          LET did(ev) == \E i \in DOMAIN run'.trace : run'.trace[i] = ev
          IN  /\ run'.labelOp.result = "blocked" =>
                    /\ run'.pc = "ready" /\ ~did("patch")
                    /\ run' # run => nsLabels' = nsLabels
              /\ did("conflict") =>
                    /\ run'.pc = "error" =>
                          \/ did("ready_false") \/ did("poll_raised")
                          \/ did("reconcile_policies_failed")
                    /\ run'.pc = "done" => did("reconcile_policies") /\ did("active")
                    /\ run'.pc \in {"ready", "polling", "pebble", "sync_policies", "done",
                                    "error"}]_vars

\* The claim of application a was refused on the namespace of application b, and the
\* run of application a reconciled its policies and is active.
C16_Witness ==
    /\ run.handler = "sync" /\ run.app = AppA /\ run.pc = "done"
    /\ Happened("claim") /\ Happened("conflict") /\ Happened("active")
    /\ ClaimedBy(nsLabels, AppB)
    /\ InScope(cluster, <<AppA, "policy">>) # {}

\* What a resource shows of the policy it was built from: the target it refers to,
\* the application of its source principal, and its number of destination entries.
BuiltFrom(app, resource, policy) ==
    /\ resource.kind = "AuthorizationPolicy" /\ resource.namespace = ModelName
    /\ Len(resource.spec.targetRefs) = 1
    /\ resource.spec.targetRefs[1].name =
          IF policy.target_service \notin {<<>>, <<<<>>>>} THEN policy.target_service[1]
          ELSE policy.target_app_name
    /\ Len(resource.spec.rules) = 1
    /\ resource.spec.rules[1].from[1].source.principals =
          << <<"c","l","u","s","t","e","r",".","l","o","c","a","l","/","n","s","/">>
                \o ModelName \o <<"/","s","a","/">> \o policy.source_app_name >>
    /\ Len(resource.spec.rules[1].to) = Len(policy.endpoints)
    /\ resource = BuildAuthorizationPolicies(app, <<policy>>)[1]

\* C17 (build is 1:1 and order-preserving): the list that
\* _build_authorization_policies returns is as long as its argument, its i-th resource
\* is the one built from the i-th policy alone, and the empty list gives the empty
\* list.
C17_OneToOne ==
    calc.fn = "build" =>
        /\ Len(calc.output) = Len(calc.input)
        /\ \A i \in 1..Len(calc.input) : BuiltFrom(calc.app, calc.output[i], calc.input[i])
        /\ calc.input = <<>> => calc.output = <<>>

\* Two different policies between the same source and target gave two resources with
\* different names, in the order of the policies.
C17_Witness ==
    /\ calc.fn = "build" /\ Len(calc.input) = 2
    /\ calc.input[1] # calc.input[2]
    /\ calc.input[1].source_app_name = calc.input[2].source_app_name
    /\ calc.input[1].source_namespace = calc.input[2].source_namespace
    /\ calc.input[1].target_app_name = calc.input[2].target_app_name
    /\ calc.output[1].name # calc.output[2].name
    /\ Len(calc.output[1].spec.rules[1].to) = 1
    /\ Len(calc.output[2].spec.rules[1].to) = 2

\* str(p) of the ports of the model.
PortText(p) ==
    CASE p = 80 -> <<"8", "0">>
      [] p = 443 -> <<"4", "4", "3">>
      [] p = 8080 -> <<"8", "0", "8", "0">>

\* The destination entries of a build call, each with the endpoint it was made from.
Entries ==
    UNION {{<<calc.input[i].endpoints[k], calc.output[i].spec.rules[1].to[k].operation>> :
               k \in 1..Len(calc.input[i].endpoints)} : i \in 1..Len(calc.input)}

\* A list of the endpoint that is present is emitted: ports in their string form, the
\* other lists verbatim.
EmittedAsGiven(ep, operation, f) ==
    ep[f] # <<>> =>
        /\ f \in DOMAIN operation
        /\ Len(operation[f]) = Len(ep[f][1])
        /\ \A n \in 1..Len(ep[f][1]) :
              operation[f][n] = IF f = "ports" THEN PortText(ep[f][1][n]) ELSE ep[f][1][n]

\* C18 as stated: a list (ports, hosts, methods, paths) that is absent in the endpoint
\* is omitted from the destination entry, and the lists that are present are emitted,
\* ports in their string form and the others verbatim.
C18_AbsentOmittedAsStated ==
    calc.fn = "build" =>
        \A e \in Entries : \A f \in {"ports", "hosts", "methods", "paths"} :
            /\ e[1][f] = <<>> => f \notin DOMAIN e[2]
            /\ EmittedAsGiven(e[1], e[2], f)

\* C18 (absent lists), amended: hosts, methods and paths that are absent in the
\* endpoint are omitted from the destination entry, never emitted as an empty list,
\* and emitted verbatim when present; ports is always emitted: as the empty list when
\* it is absent, and otherwise with every port in its string form.
C18_AbsentOmitted ==
    calc.fn = "build" =>
        \A e \in Entries :
            /\ \A f \in {"hosts", "methods", "paths"} :
                  /\ e[1][f] = <<>> => f \notin DOMAIN e[2]
                  /\ EmittedAsGiven(e[1], e[2], f)
            /\ "ports" \in DOMAIN e[2]
            /\ e[1].ports = <<>> => e[2].ports = <<>>
            /\ EmittedAsGiven(e[1], e[2], "ports")
            /\ DOMAIN e[2] \subseteq {"ports", "hosts", "methods", "paths"}

\* An endpoint without ports and with hosts, an empty list of methods and no paths
\* gave an entry with the empty list of ports, its hosts and its empty methods.
C18_Witness ==
    /\ calc.fn = "build" /\ Len(calc.input) = 1
    /\ \E e \in Entries :
          /\ e[1].ports = <<>> /\ e[1].hosts = <<<<Host>>>> /\ e[1].methods = <<<<>>>>
          /\ e[1].paths = <<>>
          /\ DOMAIN e[2] = {"ports", "hosts", "methods"}
          /\ e[2].ports = <<>> /\ e[2].hosts = <<Host>> /\ e[2].methods = <<>>

First30(s) == SubSeq(s, 1, IF Len(s) < 30 THEN Len(s) ELSE 30)

\* The name assembled from the untruncated policy.
Assembled(app, policy) ==
    app \o <<"-">> \o ModelName \o <<"-","p","o","l","i","c","y","-">>
        \o policy.source_app_name \o <<"-">> \o policy.source_namespace \o <<"-">>
        \o policy.target_app_name \o <<"-">> \o SubSeq(HashPydanticModel(policy), 1, 8)

\* C19 (truncation): when the name assembled from a policy has more than 253
\* characters, the name returned has at most 253, is made of the first 30 characters
\* of source_app_name, of source_namespace and of target_app_name, and ends with the
\* 8 characters of the hash of the untruncated policy, the ones the assembled name
\* ends with.
C19_Truncation ==
    calc.fn = "name" /\ Len(Assembled(calc.app, calc.input)) > 253 =>
        LET full == Assembled(calc.app, calc.input)
            hash == SubSeq(HashPydanticModel(calc.input), 1, 8)
        IN  /\ Len(calc.output) <= 253
            /\ calc.output =
                  calc.app \o <<"-">> \o ModelName \o <<"-","p","o","l","i","c","y","-">>
                      \o First30(calc.input.source_app_name) \o <<"-">>
                      \o First30(calc.input.source_namespace) \o <<"-">>
                      \o First30(calc.input.target_app_name) \o <<"-">> \o hash
            /\ Len(hash) = 8
            /\ SubSeq(calc.output, Len(calc.output) - 7, Len(calc.output))
                  = SubSeq(full, Len(full) - 7, Len(full))

\* A name of 254 characters was assembled for application a and a name of 112
\* characters was returned.
C19_Witness ==
    /\ calc.fn = "name" /\ calc.app = AppA
    /\ Len(Assembled(calc.app, calc.input)) = 254
    /\ Len(calc.input.source_app_name) = 78
    /\ Len(calc.output) = 112

\* C20 (claim and release touch only the three managed keys): whatever the labels of
\* the namespace and however the operation ends, every label other than use-waypoint,
\* dataplane-mode and managed-by is present with the same value after a claim or a
\* release exactly when it was before.
C20_Frame ==
    [][\A app \in Apps : \A op \in {"claim", "release"} :
          LabelStep(app, op) =>
              \A k \in (DOMAIN nsLabels \cup DOMAIN nsLabels') \ ManagedKeys :
                  /\ k \in DOMAIN nsLabels /\ k \in DOMAIN nsLabels'
                  /\ nsLabels'[k] = nsLabels[k]]_vars

\* A claim wrote the three labels on a namespace that had only its name label, which
\* it kept.
C20_Witness ==
    /\ run.labelOp.op = "claim" /\ run.labelOp.result = "written"
    /\ DOMAIN run.labelOp.before = {OtherKey}
    /\ DOMAIN nsLabels = ManagedKeys \cup {OtherKey}
    /\ nsLabels[OtherKey] = run.labelOp.before[OtherKey]

\* The Deployment that a poll read reports a ready-replica count and a
\* desired-replica count, and the two are equal.
ReportsEqual(outcome) ==
    /\ outcome.found /\ outcome.status # None
    /\ outcome.status[1].readyReplicas # None /\ outcome.status[1].replicas # None
    /\ outcome.status[1].readyReplicas = outcome.status[1].replicas

\* C21 (what counts as ready): the readiness gate returns true only on a poll that
\* read a Deployment which reports both a ready-replica count and a desired-replica
\* count that are equal; after a poll of any other outcome (not found, status absent,
\* a count not reported, counts unequal) the gate has not returned true.
C21_ReadyOnlyReportedEqual ==
    run.handler = "sync" /\ run.poll # NoPoll =>
        /\ run.pc = "pebble" => ReportsEqual(run.poll)
        /\ ~ReportsEqual(run.poll) => run.pc # "pebble" /\ ~Happened("ready_true")

\* C22 (errors of a poll): a poll that did not find the Deployment, or read one
\* without status, leaves the gate polling; a poll that failed because the API
\* could not be reached or refused the credentials is not retried: it ends the
\* polling and the run with the error raised, before any later step.
C22_TransportErrorSurfaces ==
    run.handler = "sync" /\ run.poll # NoPoll =>
        /\ run.poll.error = "not_found" \/ (run.poll.found /\ run.poll.status = None) =>
              run.pc = "polling"
        /\ run.poll.error \in {"unreachable", "unauthorized"} =>
              /\ run.pc = "error"
              /\ run.trace[Len(run.trace)] = "poll_raised"

\* C23 (only the leader mutates the cluster): no step of a handler that runs on a
\* unit which is not the leader, the remove handler included, changes an object of
\* the cluster or the labels of the namespace, and a sync on such a unit does nothing
\* but set the blocked status and return.
C23_OnlyLeaderMutates ==
    [][run' # run /\ ~run'.leader =>
          /\ cluster' = cluster /\ nsLabels' = nsLabels
          /\ run'.handler = "sync" => run'.pc = "done" /\ run'.trace = <<"blocked">>]_vars

====
